---- MODULE Spec2Model ----
(***************************************************************************)
(* A model of the `request` crate: the HTTP message codec                  *)
(* (Response::parse, Display for Request), the URI helpers, the stub DNS   *)
(* resolver and the redirect-following dispatcher Request::send.           *)
(*                                                                         *)
(* Text is a sequence of one-character strings; "\r" and "\n" are the      *)
(* carriage return and the line feed.                                      *)
(***************************************************************************)
EXTENDS Integers, Sequences, FiniteSets, TLC

VARIABLES
    pin,        \* Response::parse under test: the pieces the text is built from
    pout,       \* Response::parse under test: what parse returned
    fin,        \* Display for Request under test: the pieces the URL is built from
    freq,       \* Display for Request under test: the Request being built
    fout,       \* Display for Request under test: what format!("{request}") gave
    pc,         \* Request::send: the stage the dispatch is at
    req,        \* Request::send: `self` of the current hop
    limit,      \* the redirects of the request send was called on
    calls,      \* how many times send has been entered (the hops dispatched)
    hops,       \* how many responses have been read (the round trips made)
    seen3xx,    \* how many of the responses read had a 3xx status
    message,    \* send: the serialized request of the current hop
    name,       \* send: the host name handed to dns::resolve
    dns,        \* dns::resolve: query message, socket, queries sent, reply
    peer,       \* send: the address and port of the TCP connection
    streams,    \* the TcpStreams of this dispatch that are open
    received,   \* send: what was read from the stream
    response,   \* send: the parsed Response of the current hop
    result      \* what send returned to its caller

parseVars == <<pin, pout>>
fmtVars == <<fin, freq, fout>>
sendVars == <<pc, req, limit, calls, hops, seen3xx, message, name, dns, peer,
              streams, received, response, result>>
vars == <<parseVars, fmtVars, sendVars>>

-----------------------------------------------------------------------------
(* Characters and character classes used by the two regular expressions.   *)

CR == "\r"
LF == "\n"

Digits == {"0", "1", "2", "3", "4", "5", "6", "7", "8", "9"}

LowerSeq == <<"a", "b", "c", "d", "e", "f", "g", "h", "i", "j", "k", "l", "m",
             "n", "o", "p", "q", "r", "s", "t", "u", "v", "w", "x", "y", "z">>

UpperSeq == <<"A", "B", "C", "D", "E", "F", "G", "H", "I", "J", "K", "L", "M",
             "N", "O", "P", "Q", "R", "S", "T", "U", "V", "W", "X", "Y", "Z">>

Lower == {LowerSeq[i] : i \in DOMAIN LowerSeq}
Upper == {UpperSeq[i] : i \in DOMAIN UpperSeq}

Letters == Lower \cup Upper

\* [a-zA-Z ] : the class of the reason group of MSG_REGEX
ReasonChars == Letters \cup {" "}

DigitValue == [c \in Digits |->
    CASE c = "0" -> 0 [] c = "1" -> 1 [] c = "2" -> 2 [] c = "3" -> 3
      [] c = "4" -> 4 [] c = "5" -> 5 [] c = "6" -> 6 [] c = "7" -> 7
      [] c = "8" -> 8 [] c = "9" -> 9]

\* the largest value of a u16
U16Max == 65535

-----------------------------------------------------------------------------
(* Generic helpers on text.                                                *)

\* s from position i (1-based) to its end
From(s, i) == SubSeq(s, i, Len(s))

\* whether pat occurs in s at position i
OccursAt(s, i, pat) ==
    /\ i >= 1
    /\ i + Len(pat) - 1 <= Len(s)
    /\ SubSeq(s, i, i + Len(pat) - 1) = pat

\* the element of a one-element set: {F(x) : x \in {e}} computes e once, then
\* F of its value
The(S) == CHOOSE x \in S : TRUE

\* the least of the positions ks, or the position `otherwise` when there is none
FirstOf(ks, otherwise) ==
    IF ks = {} THEN otherwise ELSE CHOOSE k \in ks : \A m \in ks : k <= m

\* the end of a text s seen from position i: Len(s) + 1, or i when i is beyond
EndFrom(s, i) == IF i > Len(s) THEN i ELSE Len(s) + 1

\* the position after the longest run of characters of class S starting at i
RunEnd(s, i, S) ==
    The({FirstOf(stops, EndFrom(s, i)) :
            stops \in {{k \in i..Len(s) : s[k] \notin S}}})

\* the position of the first line feed at or after i, Len(s)+1 when there is none
FindLF(s, i) ==
    The({FirstOf(feeds, EndFrom(s, i)) :
            feeds \in {{k \in i..Len(s) : s[k] = LF}}})

\* the position of the first occurrence of pat in s at or after i, 0 when none
Find(s, i, pat) ==
    The({FirstOf(hits, 0) :
            hits \in {{k \in i..(Len(s) - Len(pat) + 1) : OccursAt(s, k, pat)}}})

\* concatenation of a sequence of texts
RECURSIVE Concat(_)
Concat(ss) == IF ss = <<>> THEN <<>> ELSE Head(ss) \o Concat(Tail(ss))

\* str::parse::<u16> on a non-empty run of digits: the value, or -1 on overflow
RECURSIVE DecimalValue(_, _)
DecimalValue(ds, acc) ==
    IF ds = <<>> THEN acc
    ELSE IF acc * 10 + DigitValue[Head(ds)] > U16Max THEN -1
    ELSE DecimalValue(Tail(ds), acc * 10 + DigitValue[Head(ds)])

ParseU16(ds) == DecimalValue(ds, 0)

\* str::lines: split at line feeds, drop one carriage return before each line
\* feed (and at the end of the last line), no empty line after a final feed
StripCR(l) ==
    IF Len(l) > 0 /\ l[Len(l)] = CR THEN SubSeq(l, 1, Len(l) - 1) ELSE l

RECURSIVE LinesFrom(_, _)
LinesFrom(s, i) ==
    IF i > Len(s) THEN <<>>
    ELSE The({<<StripCR(SubSeq(s, i, j - 1))>> \o LinesFrom(s, j + 1) :
                j \in {FindLF(s, i)}})

Lines(s) == LinesFrom(s, 1)

\* str::rsplit_once(": "), the split at the last ": " (a mutant of SplitOnce)
SplitOnceLast(l) ==
    LET ks == {k \in 1..Len(l) : OccursAt(l, k, <<":", " ">>)}
    IN  IF ks = {} THEN <<>>
        ELSE LET k == CHOOSE x \in ks : \A y \in ks : y <= x
             IN  <<SubSeq(l, 1, k - 1), From(l, k + 2)>>

\* str::split_once(": "): <<before, after>> around the first ": ", <<>> if none
SplitOnce(l) ==
    LET k == Find(l, 1, <<":", " ">>)
    IN  IF k = 0 THEN <<>> ELSE <<SubSeq(l, 1, k - 1), From(l, k + 2)>>

\* collect::<HashMap>() over the (name, value) pairs of the lines that split:
\* a later pair replaces an earlier one with the same name
RECURSIVE CollectMap(_, _)
CollectMap(ls, m) ==
    IF ls = <<>> THEN m
    ELSE The({IF p = <<>> THEN CollectMap(Tail(ls), m)
              ELSE The({CollectMap(Tail(ls), m2) :
                          m2 \in {[n \in (DOMAIN m) \cup {p[1]} |->
                                      IF n = p[1] THEN p[2] ELSE m[n]]}}) :
                p \in {SplitOnce(Head(ls))}})

EmptyMap == [n \in {} |-> <<>>]

-----------------------------------------------------------------------------
(* Response::parse: MSG_REGEX, matched as the regex crate matches it       *)
(* (unanchored, leftmost match, greedy repetitions, `.` is any character   *)
(* but the line feed).                                                     *)

\* HTTP\/\d\.\d at position i
VersionAt(s, i) ==
    /\ OccursAt(s, i, <<"H", "T", "T", "P", "/">>)
    /\ i + 7 <= Len(s)
    /\ s[i + 5] \in Digits
    /\ s[i + 6] = "."
    /\ s[i + 7] \in Digits

\* the mandatory part of MSG_REGEX, version SP status SP reason, at position i
StatusLineAt(s, i) ==
    /\ VersionAt(s, i)
    /\ i + 8 <= Len(s) /\ s[i + 8] = " "
    /\ \E j \in {RunEnd(s, i + 9, Digits)} :
           /\ j > i + 9
           /\ j <= Len(s) /\ s[j] = " "
           /\ RunEnd(s, j + 1, ReasonChars) > j + 1

\* \r?\n at position i: the position after it, 0 when it does not match
LineBreakEnd(s, i) ==
    IF i <= Len(s) /\ s[i] = LF THEN i + 1
    ELSE IF i + 1 <= Len(s) /\ s[i] = CR /\ s[i + 1] = LF THEN i + 2
    ELSE 0

\* .+\r?\n at position i: the position after it, 0 when it does not match
HeaderLineEnd(s, i) ==
    The({IF j <= Len(s) /\ j > i THEN j + 1 ELSE 0 : j \in {FindLF(s, i)}})

\* (?:.+\r?\n)+ taken greedily from position i: the position after the last line
RECURSIVE HeaderLinesEnd(_, _)
HeaderLinesEnd(s, i) ==
    The({IF e = 0 THEN i ELSE HeaderLinesEnd(s, e) : e \in {HeaderLineEnd(s, i)}})

\* the groups of a match that starts at i, with the status ending before j, the
\* reason before r, the header lines (if the group matched: hb # 0) running
\* from hb to before he, and the body (if bb # 0) starting at bb
MatchGroups(s, i, j, r, hb, he, bb) ==
    [matched |-> TRUE,
     version |-> SubSeq(s, i, i + 7),
     status  |-> SubSeq(s, i + 9, j - 1),
     reason  |-> SubSeq(s, j + 1, r - 1),
     headers |-> IF hb # 0 THEN SubSeq(s, hb, he - 1) ELSE <<>>,
     hasBody |-> bb # 0,
     body    |-> IF bb # 0 THEN From(s, bb) ELSE <<>>]

\* (?:\r?\n(?P<body>[\S\s]*))? after the headers group
MatchBody(s, i, j, r, hb, he) ==
    The({MatchGroups(s, i, j, r, hb, he, bb) : bb \in {LineBreakEnd(s, he)}})

\* (?:\r?\n(?P<headers>(?:.+\r?\n)+))? after the reason: hb is where the header
\* lines would start, 0 when no line break follows the reason
MatchHeaders(s, i, j, r, hb) ==
    IF hb # 0 /\ HeaderLineEnd(s, hb) # 0
    THEN The({MatchBody(s, i, j, r, hb, he) : he \in {HeaderLinesEnd(s, hb)}})
    ELSE MatchBody(s, i, j, r, 0, r)

\* (?P<reason>[a-zA-Z ]+) after the status and its space
MatchReason(s, i, j, r) ==
    The({MatchHeaders(s, i, j, r, hb) : hb \in {LineBreakEnd(s, r)}})

\* (?P<status>\d+) after the version and its space
MatchStatus(s, i, j) ==
    The({MatchReason(s, i, j, r) : r \in {RunEnd(s, j + 1, ReasonChars)}})

\* the leftmost position at which the status line matches, 0 when none
FirstStatusLine(s) ==
    The({IF starts = {} THEN 0
         ELSE CHOOSE i \in starts : \A k \in starts : i <= k :
            starts \in {{i \in 1..Len(s) : StatusLineAt(s, i)}}})

\* the match of MSG_REGEX that starts at i (0: there is none)
MatchFrom(s, i) ==
    IF i = 0 THEN [matched |-> FALSE]
    ELSE The({MatchStatus(s, i, j) : j \in {RunEnd(s, i + 9, Digits)}})

\* MSG_REGEX.captures(s)
Captures(s) == The({MatchFrom(s, i) : i \in {FirstStatusLine(s)}})

\* the Response built from the captures
BuildResponse(parts) ==
    IF ~parts.matched THEN [kind |-> "err", error |-> "invalid message"]
    ELSE IF ParseU16(parts.status) < 0 THEN [kind |-> "panic"]
    ELSE [kind    |-> "ok",
          version |-> parts.version,
          status  |-> ParseU16(parts.status),
          reason  |-> parts.reason,
          headers |-> CollectMap(Lines(parts.headers), EmptyMap),
          body    |-> parts.body]

\* Response::parse(message): Ok(Response), Err("invalid message"), or the
\* panic of `parse().unwrap()` when the status digits do not fit a u16
ResponseParse(msg) == The({BuildResponse(parts) : parts \in {Captures(msg)}})

-----------------------------------------------------------------------------
(* uri.rs: URI_REGEX, matched as the regex crate matches it (unanchored,   *)
(* leftmost match, the scheme alternative tried first).                    *)

None == [some |-> FALSE]
Some(v) == [some |-> TRUE, val |-> v]

\* [0-9a-zA-Z\.\-] : the class of the host group of URI_REGEX
HostChars == Digits \cup Letters \cup {".", "-"}

HttpScheme == <<"h", "t", "t", "p">>
HttpsScheme == <<"h", "t", "t", "p", "s">>
SchemeSep == <<":", "/", "/">>

\* (?:(?P<scheme>https?)://) at position i: the scheme matched, <<>> when none
SchemeAt(s, i) ==
    IF OccursAt(s, i, HttpsScheme \o SchemeSep) THEN HttpsScheme
    ELSE IF OccursAt(s, i, HttpScheme \o SchemeSep) THEN HttpScheme
    ELSE <<>>

\* where the host group starts for a match that starts at i: after the scheme
\* when the scheme alternative leads to a host, at i otherwise
SchemeHostStart(s, i, sch) ==
    IF sch # <<>> /\ i + Len(sch) + Len(SchemeSep) <= Len(s)
                  /\ s[i + Len(sch) + Len(SchemeSep)] \in HostChars
    THEN i + Len(sch) + Len(SchemeSep)
    ELSE i

HostStart(s, i) == The({SchemeHostStart(s, i, sch) : sch \in {SchemeAt(s, i)}})

\* (?:\:(?P<port>\d+))? at position he: the position after it, he when it does
\* not match
PortEnd(s, he) ==
    IF he <= Len(s) /\ s[he] = ":" /\ RunEnd(s, he + 1, Digits) > he + 1
    THEN RunEnd(s, he + 1, Digits)
    ELSE he

\* the groups of a match that starts at i, with the host from h to before he and
\* the port group ending before pe
UriGroups(s, i, h, he, pe) ==
    [matched |-> TRUE,
     scheme  |-> IF h > i THEN Some(SubSeq(s, i, h - 4)) ELSE None,
     host    |-> SubSeq(s, h, he - 1),
     port    |-> IF pe > he THEN Some(SubSeq(s, he + 1, pe - 1)) ELSE None,
     path    |-> IF pe <= Len(s) /\ s[pe] = "/"
                 THEN Some(SubSeq(s, pe, FindLF(s, pe) - 1))
                 ELSE None]

UriMatchPort(s, i, h, he) ==
    The({UriGroups(s, i, h, he, pe) : pe \in {PortEnd(s, he)}})

UriMatchHost(s, i, h) ==
    The({UriMatchPort(s, i, h, he) : he \in {RunEnd(s, h, HostChars)}})

\* the leftmost position of a host character, 0 when there is none
FirstHostChar(s) ==
    IF \E i \in 1..Len(s) : s[i] \in HostChars
    THEN CHOOSE i \in 1..Len(s) :
            s[i] \in HostChars /\ \A k \in 1..(i - 1) : s[k] \notin HostChars
    ELSE 0

\* the match of URI_REGEX that starts at i (0: there is none)
UriMatchFrom(s, i) ==
    IF i = 0 THEN [matched |-> FALSE]
    ELSE The({UriMatchHost(s, i, h) : h \in {HostStart(s, i)}})

\* URI_REGEX.captures(url)
UriCaptures(url) == The({UriMatchFrom(url, i) : i \in {FirstHostChar(url)}})

\* uri::host
HostOf(c) == IF c.matched THEN Some(c.host) ELSE None

UriHost(url) == The({HostOf(c) : c \in {UriCaptures(url)}})

\* uri::port
PortOf(c) == IF c.matched THEN c.port ELSE None

UriPort(url) == The({PortOf(c) : c \in {UriCaptures(url)}})

\* uri::path without its `.or(Some("/"))` (a mutant of UriPath)
PathOfNoDefault(c) ==
    IF ~c.matched THEN None
    ELSE IF c.path.some THEN c.path ELSE Some(<<>>)

UriPathNoDefault(url) == The({PathOfNoDefault(c) : c \in {UriCaptures(url)}})

\* uri::path: the path group, "/" when the URL matches without one
PathOf(c) ==
    IF ~c.matched THEN None
    ELSE IF c.path.some THEN c.path ELSE Some(<<"/">>)

UriPath(url) == The({PathOf(c) : c \in {UriCaptures(url)}})

-----------------------------------------------------------------------------
(* request.rs: the Request builder and its Display implementation.         *)

Methods == {"GET", "HEAD", "POST", "PUT", "DELETE", "CONNECT", "OPTIONS",
            "TRACE", "PATCH"}

\* {method:?} : the derived Debug of Method prints the variant's name
MethodName(m) ==
    CASE m = "GET"     -> <<"G", "E", "T">>
      [] m = "HEAD"    -> <<"H", "E", "A", "D">>
      [] m = "POST"    -> <<"P", "O", "S", "T">>
      [] m = "PUT"     -> <<"P", "U", "T">>
      [] m = "DELETE"  -> <<"D", "E", "L", "E", "T", "E">>
      [] m = "CONNECT" -> <<"C", "O", "N", "N", "E", "C", "T">>
      [] m = "OPTIONS" -> <<"O", "P", "T", "I", "O", "N", "S">>
      [] m = "TRACE"   -> <<"T", "R", "A", "C", "E">>
      [] m = "PATCH"   -> <<"P", "A", "T", "C", "H">>

\* the redirects of a Request::new
DefaultRedirects == 4

\* Request::new
RequestNew(url, method) ==
    [url |-> url, method |-> method, headers |-> EmptyMap, body |-> <<>>,
     redirects |-> DefaultRedirects]

\* Request::method, url, body, header, redirects: each returns the updated request
WithMethod(r, method) == [r EXCEPT !.method = method]
WithUrl(r, url) == [r EXCEPT !.url = url]
WithBody(r, body) == [r EXCEPT !.body = body]
WithHeader(r, key, value) ==
    [r EXCEPT !.headers = [n \in (DOMAIN r.headers) \cup {key} |->
                              IF n = key THEN value ELSE r.headers[n]]]
WithRedirects(r, max) == [r EXCEPT !.redirects = max]

\* Request::get, Request::post
RequestGet(url) == RequestNew(url, "GET")
RequestPost(url, body) == WithBody(RequestNew(url, "POST"), body)

\* the orders in which a HashMap with the key set K may be iterated
Orders(K) ==
    {o \in [1..Cardinality(K) -> K] : \A i, j \in DOMAIN o : i # j => o[i] # o[j]}

CRLF == <<CR, LF>>
HttpVersionLine == <<" ", "H", "T", "T", "P", "/", "1", ".", "1">> \o CRLF
HostPrefix == <<"H", "o", "s", "t", ":", " ">>

\* join("\r\n") of a list of texts
RECURSIVE JoinCRLF(_)
JoinCRLF(ls) ==
    IF ls = <<>> THEN <<>>
    ELSE IF Len(ls) = 1 THEN ls[1]
    ELSE ls[1] \o CRLF \o JoinCRLF(Tail(ls))

\* <Request as Display>::fmt with the header map iterated in the order `order`:
\* the text written, or fmt::Error when the URL has no path or no host
WriteRequest(r, order, path, host) ==
    IF ~path.some \/ ~host.some THEN [kind |-> "fmt_error"]
    ELSE [kind |-> "ok",
          text |-> MethodName(r.method) \o <<" ">> \o path.val
                     \o HttpVersionLine
                     \o JoinCRLF(<<HostPrefix \o host.val>> \o
                           [k \in 1..Len(order) |->
                              order[k] \o <<":", " ">> \o r.headers[order[k]]])
                     \o CRLF \o CRLF \o r.body]

RequestFmt(r, order) ==
    The({WriteRequest(r, order, path, host) :
            path \in {UriPath(r.url)}, host \in {UriHost(r.url)}})

-----------------------------------------------------------------------------
(* dns.rs: the query message of resolve and the address it reads from the  *)
(* reply.                                                                  *)

IndexOf(seq, c) == CHOOSE i \in DOMAIN seq : seq[i] = c

\* the ASCII characters of the model and their byte values
AsciiChars == Digits \cup Letters \cup {".", "-", ":", "/", " "}

Ord(c) ==
    IF c \in Digits THEN 48 + DigitValue[c]
    ELSE IF c \in Upper THEN 64 + IndexOf(UpperSeq, c)
    ELSE IF c \in Lower THEN 96 + IndexOf(LowerSeq, c)
    ELSE CASE c = "." -> 46 [] c = "-" -> 45 [] c = ":" -> 58
           [] c = "/" -> 47 [] c = " " -> 32

\* equality of two texts
SameText(s, prefix) == s = prefix

\* str::starts_with
StartsWith(s, prefix) == OccursAt(s, 1, prefix)

Localhost == <<"l", "o", "c", "a", "l", "h", "o", "s", "t">>

\* Ipv4Addr::LOCALHOST
Loopback == <<127, 0, 0, 1>>

\* the longest label the name encoding emits
MaxLabelLen == 63

\* [0xabcd, 0x0100, 0x0001, 0, 0, 0] as big-endian bytes
DnsHeader == <<171, 205, 1, 0, 0, 1, 0, 0, 0, 0, 0, 0>>

\* [qtype, qclass] = [0x0001, 0x0001] as big-endian bytes
DnsQuestion == <<0, 1, 0, 1>>

\* char::is_ascii
IsAscii(c) == c \in AsciiChars

\* query.chars().filter(char::is_ascii)
AsciiOnly(s) == SelectSeq(s, IsAscii)

\* str::split('.')
RECURSIVE SplitDotsFrom(_, _)
SplitDotsFrom(s, i) ==
    The({IF k = 0 THEN <<From(s, i)>>
         ELSE <<SubSeq(s, i, k - 1)>> \o SplitDotsFrom(s, k + 1) :
            k \in {Find(s, i, <<".">>)}})

SplitDots(s) == SplitDotsFrom(s, 1)

Min(a, b) == IF a <= b THEN a ELSE b

\* the largest value of a u8
U8Max == 255

\* u8::try_from(l.len()).unwrap_or(63).min(63)
LabelLengthByte(n) == Min(IF n <= U8Max THEN n ELSE MaxLabelLen, MaxLabelLen)

\* a label encoded without the clamp to 63, as one byte of length and all of
\* its bytes
EncodeLabelUnclamped(l) == <<Len(l) % (U8Max + 1)>> \o [k \in 1..Len(l) |-> Ord(l[k])]

\* one label: its length clamped to 63, then at most 63 of its bytes
\* (l.bytes().take(63))
EncodeLabel(l) ==
    <<LabelLengthByte(Len(l))>> \o
      [k \in 1..Min(Len(l), MaxLabelLen) |-> Ord(l[k])]

\* the name in DNS notation: the labels, then a zero byte
EncodeName(query) ==
    The({Concat([k \in 1..Len(labels) |-> EncodeLabel(labels[k])]) \o <<0>> :
            labels \in {SplitDots(AsciiOnly(query))}})

\* the query message: header, name, question
DnsMessage(query) == DnsHeader \o EncodeName(query) \o DnsQuestion

\* the offset of the address after the echoed query in the reply
AnswerSkip == 12

\* `&buf.get(message.len()..).unwrap()[12..]` and ip[0..3]: the address, or the
\* panic of the unwrap, the slice or the index when the reply is too short
ExtractAddress(buf, q) ==
    IF Len(buf) < q + AnswerSkip + 4 THEN [kind |-> "panic"]
    ELSE [kind |-> "ok",
          address |-> SubSeq(buf, q + AnswerSkip + 1, q + AnswerSkip + 4)]

-----------------------------------------------------------------------------
(* request.rs: the redirect decision of Request::send.                     *)

IoError(kind, msg) == [kind |-> kind, msg |-> msg]

ErrInvalidHost == IoError("InvalidInput", "url host part is invalid")
ErrInvalidUtf8 == IoError("InvalidData", "received invalid data")
ErrRedirectLimit == IoError("Other", "maximum redirect limit reached")
ErrNoLocation == IoError("InvalidData", "no location header provided in redirect")

LocationName == <<"L", "o", "c", "a", "t", "i", "o", "n">>

\* the match arm 300..400
IsRedirect(status) == status >= 300 /\ status < 400

\* an off-by-one limit test (a mutant of RedirectLimitReached)
RedirectLimitReachedEarly(r) == r.redirects <= 1

\* `self.redirects == 0`
RedirectLimitReached(r) == r.redirects = 0

\* a next request that always downgrades to GET (a mutant of NextRequest)
NextRequestAlwaysGet(r, status, location) ==
    WithMethod(WithUrl(WithRedirects(r, r.redirects - 1), location), "GET")

\* the request of the next hop: the clone with one redirect less and the new
\* URL, its method kept for 303 and set to GET otherwise
NextRequest(r, status, location) ==
    LET request == WithUrl(WithRedirects(r, r.redirects - 1), location)
    IN  IF status = 303 THEN request ELSE WithMethod(request, "GET")

\* a decision that looks for Location before it tests the limit (a mutant of
\* RedirectDecision)
RedirectDecisionLocationFirst(r, resp) ==
    IF ~IsRedirect(resp.status) THEN [kind |-> "return"]
    ELSE IF LocationName \notin DOMAIN resp.headers
         THEN [kind |-> "err", error |-> ErrNoLocation]
    ELSE IF RedirectLimitReached(r)
         THEN [kind |-> "err", error |-> ErrRedirectLimit]
    ELSE [kind |-> "follow",
          request |-> NextRequest(r, resp.status, resp.headers[LocationName])]

\* `match response.status`: return the response, fail, or follow the redirect
RedirectDecision(r, resp) ==
    IF ~IsRedirect(resp.status) THEN [kind |-> "return"]
    ELSE IF RedirectLimitReached(r)
         THEN [kind |-> "err", error |-> ErrRedirectLimit]
    ELSE IF LocationName \notin DOMAIN resp.headers
         THEN [kind |-> "err", error |-> ErrNoLocation]
    ELSE [kind |-> "follow",
          request |-> NextRequest(r, resp.status, resp.headers[LocationName])]

\* the port of the TCP connection: the URL's port, 80 when it has none or when
\* it does not fit a u16
DefaultPort == 80

ConnectPort(url) ==
    LET p == UriPort(url)
    IN  IF ~p.some THEN DefaultPort
        ELSE IF ParseU16(p.val) < 0 THEN DefaultPort
        ELSE ParseU16(p.val)

\* the size of the receive buffer of send
ResponseBufferSize == 4096

\* the size of the receive buffer of resolve
DnsBufferSize == 256

\* what a read into a buffer of `size` bytes keeps of `data`
ReadInto(data, size) == SubSeq(data, 1, Min(Len(data), size))

-----------------------------------------------------------------------------
(* Response texts for Response::parse: a status line, header lines and a   *)
(* body, put together from small pools.                                    *)

\* the longest list of header lines of a generated response text
MaxHeaderLines == 2

Versions == {<<"H", "T", "T", "P", "/", "1", ".", "1">>,
             <<"H", "T", "T", "P", "/", "2", ".", "0">>}

\* status tokens: in range, below 100, above 599, beyond u16, not a number
\* (value: the number the token denotes, -1 when it is not a number)
StatusTokens ==
    {[text |-> <<"2", "0", "0">>, value |-> 200],
     [text |-> <<"3", "0", "1">>, value |-> 301],
     [text |-> <<"9", "9">>, value |-> 99],
     [text |-> <<"7", "0", "0">>, value |-> 700],
     [text |-> <<"7", "0", "0", "0", "0">>, value |-> 70000],
     [text |-> <<"2", "x", "0">>, value |-> -1]}

\* reason phrases: of letters and spaces, and with a digit or punctuation
Reasons == {<<"O", "K">>, <<"N", "o", " ", "g", "o">>,
            <<"O", "K", "!">>, <<"N", "o", "-", "g", "o">>, <<"4", "x", "x">>}

LineBreaks == {<<LF>>, <<CR, LF>>}

\* header lines: Name: value pairs (one name twice, one value holding ": ")
\* and lines without the ": " separator
HeaderPairs == {<<<<"A">>, <<"b">>>>, <<<<"A">>, <<"c">>>>,
                <<<<"L">>, <<"x", ":", " ", "y">>>>}

JunkLines == {<<"j", "u", "n", "k">>, <<"K", ":", "v">>}

HeaderLinePool ==
    {[text |-> p[1] \o <<":", " ">> \o p[2], pair |-> p] : p \in HeaderPairs}
    \cup {[text |-> j, pair |-> <<>>] : j \in JunkLines}

HeaderLineSeqs ==
    UNION {[1..n -> HeaderLinePool] : n \in 0..MaxHeaderLines}

Bodies == {<<>>, <<"h", "i">>, <<"a", LF, "X", ":", " ", "y", CR, LF>>}

ParseInputs ==
    [version : Versions, status : StatusTokens, reason : Reasons,
     lb : LineBreaks, hlb : LineBreaks, blb : LineBreaks,
     hlines : HeaderLineSeqs, body : Bodies]

\* the response text of an input: status line, line break, header lines each
\* ended by a line break, blank line, body
ResponseText(in) ==
    in.version \o <<" ">> \o in.status.text \o <<" ">> \o in.reason \o in.lb
      \o Concat([k \in 1..Len(in.hlines) |-> in.hlines[k].text \o in.hlb])
      \o in.blb \o in.body

NoResult == [kind |-> "none"]

\* one call of dns::resolve: the query message, whether its UdpSocket is open,
\* whether DNS_SERVERS was dereferenced, the queries sent, the datagram the
\* name server answered and what of it was read into the buffer
NoDns == [msg |-> <<>>, socket |-> FALSE, servers |-> FALSE, sent |-> 0,
          datagram |-> <<>>, reply |-> <<>>]
NoPeer == [host |-> <<>>, port |-> 0]

ParseIdle == pin = <<>> /\ pout = NoResult
FormatIdle == fin = <<>> /\ freq = <<>> /\ fout = NoResult
SendIdle ==
    /\ pc = "idle" /\ req = <<>> /\ limit = 0 /\ calls = 0 /\ hops = 0
    /\ seen3xx = 0 /\ message = <<>> /\ name = <<>> /\ dns = NoDns
    /\ peer = NoPeer /\ streams = 0 /\ received = <<>>
    /\ response = NoResult /\ result = NoResult

ParseInit ==
    /\ pin \in ParseInputs
    /\ pout = NoResult
    /\ FormatIdle
    /\ SendIdle

\* one call of Response::parse on the text of the input
Parse ==
    /\ pout = NoResult
    /\ pout' = ResponseParse(ResponseText(pin))
    /\ UNCHANGED <<pin, fmtVars, sendVars>>

ParseNext == Parse

ParseSpec == ParseInit /\ [][ParseNext]_vars

-----------------------------------------------------------------------------
(* Requests for Display: a URL put together from scheme, host, port and    *)
(* path, a method, and headers and a body added through the builder.       *)

\* the most header names a generated request carries
MaxUserHeaders == 2

FmtSchemes == {<<>>, HttpScheme \o SchemeSep, HttpsScheme \o SchemeSep}

FmtHosts == {<<"e", "x", "a", "m", "p", "l", "e", ".", "o", "r", "g">>,
             <<"l", "o", "c", "a", "l", "h", "o", "s", "t">>,
             <<"a", "-", "1", ".", "b">>}

FmtPorts == {<<>>, <<":", "8", "0", "0", "0">>}

FmtPaths == {<<>>, <<"/">>, <<"/", "a", "p", "i">>,
             <<"/", "a", " ", "b", "?", "x", "=", "1">>}

FmtInputs == [scheme : FmtSchemes, host : FmtHosts, port : FmtPorts, path : FmtPaths]

FmtUrl(in) == in.scheme \o in.host \o in.port \o in.path

UserHeaderPool ==
    {<<<<"A", "c", "c", "e", "p", "t">>, <<"*", "/", "*">>>>,
     <<<<"A", "c", "c", "e", "p", "t">>, <<"x">>>>,
     <<<<"X", "-", "I", "d">>, <<"1">>>>,
     <<<<"H", "o", "s", "t">>, <<"h">>>>}

FmtBodies == {<<"h", "i">>, <<"{", "}", CR, LF>>}

FormatInit ==
    /\ fin \in FmtInputs
    /\ \E m \in Methods : freq = RequestNew(FmtUrl(fin), m)
    /\ fout = NoResult
    /\ ParseIdle
    /\ SendIdle

\* Request::header on the request being built
FmtHeader ==
    /\ fout = NoResult
    /\ \E h \in UserHeaderPool :
          /\ h[1] \in DOMAIN freq.headers
               \/ Cardinality(DOMAIN freq.headers) < MaxUserHeaders
          /\ freq' = WithHeader(freq, h[1], h[2])
    /\ UNCHANGED <<fin, fout, parseVars, sendVars>>

\* Request::body on the request being built
FmtBody ==
    /\ fout = NoResult
    /\ \E b \in FmtBodies : freq' = WithBody(freq, b)
    /\ UNCHANGED <<fin, fout, parseVars, sendVars>>

\* format!("{request}"), the header map iterated in any order
Format ==
    /\ fout = NoResult
    /\ \E o \in Orders(DOMAIN freq.headers) : fout' = RequestFmt(freq, o)
    /\ UNCHANGED <<fin, freq, parseVars, sendVars>>

FormatNext == FmtHeader \/ FmtBody \/ Format

FormatSpec == FormatInit /\ [][FormatNext]_vars

-----------------------------------------------------------------------------
(* Request::send: a request is built, send is called, and every hop goes   *)
(* through format, host, resolve, connect, write, read, decode, parse and  *)
(* the status match. The network answers each step in any way it can.      *)

\* the largest value handed to Request::redirects
MaxRedirects == 2

UrlLocalhost == Localhost \o <<":", "8", "0", "0", "0">>
UrlRemote == <<"b", ".", "o", "r", "g", "/", "x">>
UrlNoHost == <<"/">>

Urls == {UrlLocalhost, UrlRemote, UrlNoHost}

SendMethods == {"GET", "POST"}

SendHeader == <<<<"A", "c", "c", "e", "p", "t">>, <<"x">>>>

SendBody == <<"h", "i">>

StatusLine(status, reason) ==
    <<"H", "T", "T", "P", "/", "1", ".", "1", " ">> \o status \o <<" ">> \o reason

LocationLine(url) == LocationName \o <<":", " ">> \o url \o CRLF

\* what the server may answer: 200, 400, redirects of several statuses with a
\* Location, one without, one whose Location has no host, and no HTTP at all
ServerReplies ==
    {StatusLine(<<"2", "0", "0">>, <<"O", "K">>) \o CRLF \o CRLF,
     StatusLine(<<"4", "0", "0">>, <<"B", "a", "d">>) \o CRLF \o CRLF,
     StatusLine(<<"3", "0", "1">>, <<"M", "o", "v", "e", "d">>) \o CRLF
        \o LocationLine(UrlRemote) \o CRLF,
     StatusLine(<<"3", "0", "3">>, <<"S", "e", "e">>) \o CRLF
        \o LocationLine(UrlLocalhost) \o CRLF,
     StatusLine(<<"3", "9", "9">>, <<"X">>) \o CRLF
        \o LocationLine(UrlLocalhost) \o CRLF,
     StatusLine(<<"3", "0", "2">>, <<"F", "o", "u", "n", "d">>) \o CRLF \o CRLF,
     StatusLine(<<"3", "0", "7">>, <<"T">>) \o CRLF
        \o LocationLine(UrlNoHost) \o CRLF,
     <<"o", "o", "p", "s">>}

\* the datagrams the nameserver may answer to a query of q bytes: lengths
\* around q + 16, the byte at offset k being (seed * (k + 1)) % 256
DnsReplySeeds == {3, 7}

DnsReplyLengths(q) == {0, q, q + 15, q + 16, q + 20}

DnsReplies(q) ==
    {[k \in 1..n |-> (seed * k) % 256] : n \in DnsReplyLengths(q), seed \in DnsReplySeeds}

Init ==
    /\ pc = "build"
    /\ \E url \in Urls, m \in SendMethods : req = RequestNew(url, m)
    /\ limit = 0 /\ calls = 0 /\ hops = 0 /\ seen3xx = 0
    /\ message = <<>> /\ name = <<>> /\ dns = NoDns /\ peer = NoPeer
    /\ streams = 0 /\ received = <<>>
    /\ response = NoResult /\ result = NoResult
    /\ ParseIdle
    /\ FormatIdle

building == <<limit, calls, hops, seen3xx, message, name, dns, peer, streams,
              received, response, result, parseVars, fmtVars>>

\* Request::method
SetMethod ==
    /\ pc = "build"
    /\ \E m \in SendMethods : req' = WithMethod(req, m)
    /\ UNCHANGED <<pc, building>>

\* Request::url
SetUrl ==
    /\ pc = "build"
    /\ \E url \in Urls : req' = WithUrl(req, url)
    /\ UNCHANGED <<pc, building>>

\* Request::body
SetBody ==
    /\ pc = "build"
    /\ req' = WithBody(req, SendBody)
    /\ UNCHANGED <<pc, building>>

\* Request::header
SetHeader ==
    /\ pc = "build"
    /\ req' = WithHeader(req, SendHeader[1], SendHeader[2])
    /\ UNCHANGED <<pc, building>>

\* Request::redirects
SetRedirects ==
    /\ pc = "build"
    /\ \E max \in 0..MaxRedirects : req' = WithRedirects(req, max)
    /\ UNCHANGED <<pc, building>>

\* the caller calls Request::send
Send ==
    /\ pc = "build"
    /\ pc' = "format"
    /\ limit' = req.redirects
    /\ calls' = 1
    /\ UNCHANGED <<req, hops, seen3xx, message, name, dns, peer, streams,
                   received, response, result, parseVars, fmtVars>>

\* what send returns, or the panic that ends it: `stage` is the stage of the
\* hop and `at` the call in it that decided
Ok(stage, at, resp) == [kind |-> "ok", stage |-> stage, at |-> at, response |-> resp]
Err(stage, at, error) == [kind |-> "err", stage |-> stage, at |-> at, error |-> error]
Panic(stage, at) == [kind |-> "panic", stage |-> stage, at |-> at]

\* an I/O error of the operating system
OsError == IoError("Os", "os error")

\* `let message = format!("{self}")`: format! panics when Display fails
SendFormat ==
    /\ pc = "format"
    /\ \E o \in Orders(DOMAIN req.headers) :
       \E f \in {RequestFmt(req, o)} :
              IF f.kind = "ok"
              THEN /\ message' = f.text
                   /\ pc' = "host"
                   /\ UNCHANGED result
              ELSE /\ result' = Panic("format", "format!")
                   /\ pc' = "return"
                   /\ UNCHANGED message
    /\ UNCHANGED <<req, limit, calls, hops, seen3xx, name, dns, peer, streams,
                   received, response, parseVars, fmtVars>>

\* `uri::host(self.url).ok_or(InvalidInput)?`
SendHost ==
    /\ pc = "host"
    /\ \E h \in {UriHost(req.url)} :
           IF h.some
           THEN /\ name' = h.val
                /\ pc' = "resolve"
                /\ UNCHANGED result
           ELSE /\ result' = Err("host", "uri::host", ErrInvalidHost)
                /\ pc' = "return"
                /\ UNCHANGED name
    /\ UNCHANGED <<req, limit, calls, hops, seen3xx, message, dns, peer, streams,
                   received, response, parseVars, fmtVars>>

sending == <<req, limit, calls, hops, seen3xx, message, name, streams,
             received, response, parseVars, fmtVars>>

\* dns::resolve is entered: localhost is answered at once, any other name gets
\* its query message built
Resolve ==
    /\ pc = "resolve"
    /\ IF StartsWith(name, Localhost)
       THEN /\ peer' = [host |-> Loopback, port |-> ConnectPort(req.url)]
            /\ dns' = NoDns
            /\ pc' = "connect"
       ELSE /\ dns' = [NoDns EXCEPT !.msg = DnsMessage(name)]
            /\ pc' = "dns_bind"
            /\ UNCHANGED peer
    /\ UNCHANGED <<result, sending>>

\* `UdpSocket::bind("0.0.0.0:0")?`
DnsBind ==
    /\ pc = "dns_bind"
    /\ \/ /\ dns' = [dns EXCEPT !.socket = TRUE]
          /\ pc' = "dns_connect"
          /\ UNCHANGED result
       \/ /\ result' = Err("resolve", "UdpSocket::bind", OsError)
          /\ pc' = "return"
          /\ UNCHANGED dns
    /\ UNCHANGED <<peer, sending>>

\* `socket.connect(&DNS_SERVERS[..])?`: the first use of DNS_SERVERS reads
\* /etc/resolv.conf and panics when it cannot
DnsConnect ==
    /\ pc = "dns_connect"
    /\ \/ /\ pc' = "dns_send"
          /\ dns' = [dns EXCEPT !.servers = TRUE]
          /\ UNCHANGED result
       \/ /\ result' = Err("resolve", "socket.connect", OsError)
          /\ dns' = [dns EXCEPT !.socket = FALSE, !.servers = TRUE]
          /\ pc' = "return"
       \/ /\ result' = Panic("resolve", "DNS_SERVERS")
          /\ dns' = [dns EXCEPT !.socket = FALSE, !.servers = TRUE]
          /\ pc' = "return"
    /\ UNCHANGED <<peer, sending>>

\* `socket.send_to(&message, &DNS_SERVERS[..]).unwrap()`
DnsSendTo ==
    /\ pc = "dns_send"
    /\ \/ /\ dns' = [dns EXCEPT !.sent = @ + 1]
          /\ pc' = "dns_peek"
          /\ UNCHANGED result
       \/ /\ result' = Panic("resolve", "socket.send_to")
          /\ dns' = [dns EXCEPT !.socket = FALSE]
          /\ pc' = "return"
    /\ UNCHANGED <<peer, sending>>

\* `socket.peek_from(&mut buf)?`
DnsPeek ==
    /\ pc = "dns_peek"
    /\ \/ /\ pc' = "dns_recv"
          /\ UNCHANGED <<dns, result>>
       \/ /\ result' = Err("resolve", "socket.peek_from", OsError)
          /\ dns' = [dns EXCEPT !.socket = FALSE]
          /\ pc' = "return"
    /\ UNCHANGED <<peer, sending>>

\* `let n = socket.recv(&mut buf)?; buf.resize(n, 0)`
DnsRecv ==
    /\ pc = "dns_recv"
    /\ \/ /\ \E datagram \in DnsReplies(Len(dns.msg)) :
                dns' = [dns EXCEPT !.datagram = datagram,
                                   !.reply = ReadInto(datagram, DnsBufferSize)]
          /\ pc' = "dns_extract"
          /\ UNCHANGED result
       \/ /\ result' = Err("resolve", "socket.recv", OsError)
          /\ dns' = [dns EXCEPT !.socket = FALSE]
          /\ pc' = "return"
    /\ UNCHANGED <<peer, sending>>

\* the address is read from the reply and resolve returns
DnsExtract ==
    /\ pc = "dns_extract"
    /\ LET a == ExtractAddress(dns.reply, Len(dns.msg))
       IN  IF a.kind = "ok"
           THEN /\ peer' = [host |-> a.address, port |-> ConnectPort(req.url)]
                /\ pc' = "connect"
                /\ UNCHANGED result
           ELSE /\ result' = Panic("resolve", "ip")
                /\ pc' = "return"
                /\ UNCHANGED peer
    /\ dns' = [dns EXCEPT !.socket = FALSE]
    /\ UNCHANGED sending

\* `TcpStream::connect((host, port))?`
Connect ==
    /\ pc = "connect"
    /\ \/ /\ streams' = streams + 1
          /\ pc' = "write"
          /\ UNCHANGED result
       \/ /\ result' = Err("connect", "TcpStream::connect", OsError)
          /\ pc' = "return"
          /\ UNCHANGED streams
    /\ UNCHANGED <<req, limit, calls, hops, seen3xx, message, name, dns, peer,
                   received, response, parseVars, fmtVars>>

\* `stream.write_all(message.as_bytes())?`
Write ==
    /\ pc = "write"
    /\ \/ /\ pc' = "read"
          /\ UNCHANGED result
       \/ /\ result' = Err("write", "write_all", OsError)
          /\ pc' = "return"
    /\ UNCHANGED <<req, limit, calls, hops, seen3xx, message, name, dns, peer,
                   streams, received, response, parseVars, fmtVars>>

\* `stream.read(&mut buffer)?`: what the server sent, cut to the buffer; the
\* bytes may be no UTF-8
Read ==
    /\ pc = "read"
    /\ \/ /\ \E t \in ServerReplies :
                received' = [utf8 |-> TRUE, text |-> ReadInto(t, ResponseBufferSize)]
          /\ hops' = hops + 1
          /\ pc' = "decode"
          /\ UNCHANGED result
       \/ /\ received' = [utf8 |-> FALSE, text |-> <<>>]
          /\ hops' = hops + 1
          /\ pc' = "decode"
          /\ UNCHANGED result
       \/ /\ result' = Err("read", "read", OsError)
          /\ pc' = "return"
          /\ UNCHANGED <<received, hops>>
    /\ UNCHANGED <<req, limit, calls, seen3xx, message, name, dns, peer,
                   streams, response, parseVars, fmtVars>>

\* `String::from_utf8(buffer).map_err(..)?`
Decode ==
    /\ pc = "decode"
    /\ IF received.utf8
       THEN /\ pc' = "parse"
            /\ UNCHANGED result
       ELSE /\ result' = Err("decode", "from_utf8", ErrInvalidUtf8)
            /\ pc' = "return"
    /\ UNCHANGED <<req, limit, calls, hops, seen3xx, message, name, dns, peer,
                   streams, received, response, parseVars, fmtVars>>

\* `Response::parse(&received).map_err(..)?`
ParseResponse ==
    /\ pc = "parse"
    /\ \E r \in {ResponseParse(received.text)} :
           IF r.kind = "ok"
           THEN /\ response' = r
                /\ pc' = "status"
                /\ UNCHANGED result
           ELSE /\ result' = IF r.kind = "err"
                             THEN Err("parse", "Response::parse", IoError("InvalidData", r.error))
                             ELSE Panic("parse", "Response::parse")
                /\ pc' = "return"
                /\ UNCHANGED response
    /\ UNCHANGED <<req, limit, calls, hops, seen3xx, message, name, dns, peer,
                   streams, received, parseVars, fmtVars>>

\* `match response.status`: the response is returned, or the dispatch fails, or
\* send is entered again for the redirected request (the stream of this hop
\* stays open until that call returns)
Status ==
    /\ pc = "status"
    /\ seen3xx' = IF IsRedirect(response.status) THEN seen3xx + 1 ELSE seen3xx
    /\ \E d \in {RedirectDecision(req, response)} :
           CASE d.kind = "return" ->
                  /\ result' = Ok("status", "match", response)
                  /\ pc' = "return"
                  /\ UNCHANGED <<req, calls, response>>
             [] d.kind = "err" ->
                  /\ result' = Err("status", "match", d.error)
                  /\ pc' = "return"
                  /\ UNCHANGED <<req, calls, response>>
             [] d.kind = "follow" ->
                  /\ req' = d.request
                  /\ calls' = calls + 1
                  /\ response' = NoResult
                  /\ pc' = "format"
                  /\ UNCHANGED result
    /\ UNCHANGED <<limit, hops, message, name, dns, peer, streams, received,
                   parseVars, fmtVars>>

\* send returns through its frames: each drops its stream
Return ==
    /\ pc = "return"
    /\ IF streams > 0
       THEN /\ streams' = streams - 1
            /\ UNCHANGED pc
       ELSE /\ pc' = "done"
            /\ UNCHANGED streams
    /\ UNCHANGED <<req, limit, calls, hops, seen3xx, message, name, dns, peer,
                   received, response, result, parseVars, fmtVars>>

Build == SetMethod \/ SetUrl \/ SetBody \/ SetHeader \/ SetRedirects

Dispatch ==
    \/ SendFormat \/ SendHost \/ Resolve
    \/ DnsBind \/ DnsConnect \/ DnsSendTo \/ DnsPeek \/ DnsRecv \/ DnsExtract
    \/ Connect \/ Write \/ Read \/ Decode \/ ParseResponse \/ Status \/ Return

Next == Build \/ Send \/ Dispatch

Spec == Init /\ [][Next]_vars

\* every stage that is begun is finished: the calls of send are blocking and
\* sequential, and the network answers
LiveSpec == Spec /\ WF_vars(Dispatch)

-----------------------------------------------------------------------------
(* dns::resolve on its own (DnsSpec): the names it may be handed, which    *)
(* uri::host would not all let through (resolve takes any &str).           *)

\* how many labels the longest name has
LongNameLabels == 4

\* a character that is not ASCII (one char of two UTF-8 bytes)
EAcute == "U+00E9"

\* the text of n characters c
Rep(c, n) == [k \in 1..n |-> c]

\* the labels joined by dots
RECURSIVE JoinDots(_)
JoinDots(ls) ==
    IF Len(ls) = 1 THEN ls[1] ELSE ls[1] \o <<".">> \o JoinDots(Tail(ls))

\* a name whose query message is longer than the 256 bytes of the reply buffer
LongName == JoinDots([k \in 1..LongNameLabels |-> Rep("a", MaxLabelLen - 3)])

\* names that begin with localhost
LocalNames ==
    {Localhost,
     Localhost \o <<".", "l", "a", "n">>,
     Localhost \o <<"x">>}

\* names that do not: near misses of localhost, plain names, empty labels,
\* characters that are not ASCII, labels of 63, 64 and 256 characters
RemoteNames ==
    {<<"L">> \o Tail(Localhost),
     <<"l", "o", "c", "a", "l">>,
     <<EAcute>> \o Localhost,
     <<"b", ".", "o", "r", "g">>,
     <<"b", EAcute, ".", "o", EAcute, "r", "g">>,
     <<EAcute>>,
     <<>>,
     <<"a", ".", ".", "b">>,
     <<"b", ".", "o", "r", "g", ".">>,
     JoinDots(<<Rep("a", MaxLabelLen), <<"o", "r", "g">>>>),
     JoinDots(<<Rep("a", MaxLabelLen + 1), <<"o", "r", "g">>>>),
     JoinDots(<<<<"w">>, Rep("b", U8Max + 1), <<"o", "r", "g">>>>),
     LongName}

DnsNames == LocalNames \cup RemoteNames

\* resolve(name) is called
DnsInit ==
    /\ pc = "resolve"
    /\ \E n \in DnsNames : name = n /\ req = RequestGet(n)
    /\ limit = DefaultRedirects /\ calls = 1 /\ hops = 0 /\ seen3xx = 0
    /\ message = <<>> /\ dns = NoDns /\ peer = NoPeer
    /\ streams = 0 /\ received = <<>>
    /\ response = NoResult /\ result = NoResult
    /\ ParseIdle
    /\ FormatIdle

\* the steps of one call of resolve
Resolving ==
    \/ Resolve \/ DnsBind \/ DnsConnect \/ DnsSendTo \/ DnsPeek \/ DnsRecv
    \/ DnsExtract

DnsSpec == DnsInit /\ [][Resolving]_vars

-----------------------------------------------------------------------------
(* Properties of Display for Request (FormatSpec).                         *)

\* the header lines after the Host line, each preceded by CRLF, in order o
UserHeaderLines(r, o) ==
    Concat([k \in 1..Len(o) |-> CRLF \o o[k] \o <<":", " ">> \o r.headers[o[k]]])

\* "GET / HTTP/1.1\r\nHost: example.org\r\n\r\n"
GetExampleOrgText ==
    <<"G", "E", "T", " ", "/", " ", "H", "T", "T", "P", "/", "1", ".", "1", CR, LF,
      "H", "o", "s", "t", ":", " ",
      "e", "x", "a", "m", "p", "l", "e", ".", "o", "r", "g", CR, LF, CR, LF>>

\* C4: a request whose URL has a host serializes to METHOD SP path SP HTTP/1.1
\* CRLF, the line Host: <host> (without the port), the user's headers as
\* Name: value lines in some order, a blank line and the body; the path is "/"
\* when the URL has none; Request::get("example.org") gives the documented text.
C4_SerializedLayout ==
    fout # NoResult =>
        /\ fout.kind = "ok"
        /\ \E o \in Orders(DOMAIN freq.headers) :
              fout.text =
                  MethodName(freq.method) \o <<" ">>
                    \o (IF fin.path = <<>> THEN <<"/">> ELSE fin.path)
                    \o <<" ", "H", "T", "T", "P", "/", "1", ".", "1">> \o CRLF
                    \o <<"H", "o", "s", "t", ":", " ">> \o fin.host
                    \o UserHeaderLines(freq, o)
                    \o CRLF \o CRLF \o freq.body
        /\ freq = RequestGet(<<"e", "x", "a", "m", "p", "l", "e", ".", "o", "r", "g">>)
              => fout.text = GetExampleOrgText

\* a request with a port, no path, two headers and a body has been serialized
C4_Witness ==
    /\ fout # NoResult
    /\ fout.kind = "ok"
    /\ fin.path = <<>>
    /\ fin.port # <<>>
    /\ Cardinality(DOMAIN freq.headers) = 2
    /\ freq.body # <<>>

-----------------------------------------------------------------------------
(* Properties of Response::parse (ParseSpec).                              *)

LettersAndSpaces(t) == t # <<>> /\ \A k \in 1..Len(t) : t[k] \in ReasonChars

\* the header map a list of generated header lines stands for: the Name: value
\* lines, a later line replacing an earlier one of the same name
RECURSIVE PairsMap(_, _)
PairsMap(hs, m) ==
    IF hs = <<>> THEN m
    ELSE LET p == Head(hs).pair
         IN  IF p = <<>> THEN PairsMap(Tail(hs), m)
             ELSE PairsMap(Tail(hs),
                    [n \in (DOMAIN m) \cup {p[1]} |-> IF n = p[1] THEN p[2] ELSE m[n]])

Parsed == pout # NoResult

\* the input is a status line with a numeric status and a reason of letters and
\* spaces, header lines, a blank line, and nothing after it
C5Case ==
    /\ Parsed
    /\ LettersAndSpaces(pin.reason)
    /\ pin.status.value \in 0..U16Max
    /\ pin.body = <<>>

\* C5: such a text parses, with LF or CRLF line breaks, to the version, status
\* and reason of its status line and to the header map of its Name: value
\* lines split at the first ": "; lines without ": " are skipped.
C5_ParseStatusLineAndHeaders ==
    C5Case =>
        /\ pout.kind = "ok"
        /\ pout.version = pin.version
        /\ pout.status = pin.status.value
        /\ pout.reason = pin.reason
        /\ pout.headers = PairsMap(pin.hlines, EmptyMap)

\* a text with CRLF line breaks, a header line without ": ", and a header whose
\* value holds ": " has been parsed
C5_Witness ==
    /\ C5Case
    /\ pout.kind = "ok"
    /\ pin.hlb = CRLF
    /\ Len(pin.hlines) = 2
    /\ pin.hlines[1].pair = <<>>
    /\ pin.hlines[2].pair = <<<<"L">>, <<"x", ":", " ", "y">>>>

\* the input is HTTP/1.1 <status> <reason> CRLF, Name: value lines each ended by
\* CRLF, CRLF, body
C6Case ==
    /\ Parsed
    /\ pin.version = <<"H", "T", "T", "P", "/", "1", ".", "1">>
    /\ LettersAndSpaces(pin.reason)
    /\ pin.status.value \in 100..599
    /\ pin.lb = CRLF /\ pin.hlb = CRLF /\ pin.blb = CRLF
    /\ \A k \in 1..Len(pin.hlines) : pin.hlines[k].pair # <<>>

\* C6: the body round-trips: parsing such a text yields the original body
\* verbatim, with the original status, reason and header set.
C6_BodyRoundTrip ==
    C6Case =>
        /\ pout.kind = "ok"
        /\ pout.body = pin.body
        /\ pout.status = pin.status.value
        /\ pout.reason = pin.reason
        /\ pout.headers = PairsMap(pin.hlines, EmptyMap)

\* C7: a status that is not a number or is outside [100, 599] is a parse error,
\* and every Response returned has 100 <= status <= 599.
C7_StatusInRange ==
    Parsed =>
        /\ pin.status.value \notin 100..599 => pout.kind = "err"
        /\ pout.kind = "ok" => pout.status \in 100..599

\* the input has a status in [100, 599] and a reason phrase holding a digit or
\* a punctuation character
C8Case ==
    /\ Parsed
    /\ pin.status.value \in 100..599
    /\ \E k \in 1..Len(pin.reason) : pin.reason[k] \notin ReasonChars

\* C8: a reason phrase holding a digit or a punctuation character is a parse
\* error; no Response is built from a prefix of it.
C8_ReasonRejected == C8Case => pout.kind = "err"

-----------------------------------------------------------------------------
(* Properties of Request::send (Spec, LiveSpec).                           *)

Returned == pc \in {"return", "done"}

RedirectLimitError == Err("status", "match", ErrRedirectLimit)
NoLocationError == Err("status", "match", ErrNoLocation)

\* the round trips never exceed limit + 1; a response is returned after k 3xx
\* responses and one that is not 3xx, k <= limit, in k + 1 round trips; more
\* than limit 3xx responses end in the redirect-limit error after limit + 1
C1Bound ==
    /\ hops <= limit + 1
    /\ result.kind = "ok" =>
          /\ ~IsRedirect(result.response.status)
          /\ seen3xx <= limit
          /\ hops = seen3xx + 1
    /\ result = RedirectLimitError =>
          /\ seen3xx = limit + 1
          /\ hops = limit + 1
    /\ seen3xx > limit => result = RedirectLimitError
    /\ (Returned /\ result.stage = "status" /\ ~IsRedirect(response.status)) =>
          /\ result = Ok("status", "match", response)
          /\ hops = seen3xx + 1

\* C1: with redirect limit L, send ends after at most L + 1 round trips: with
\* the first non-3xx response after k <= L redirects (k + 1 round trips), or
\* with the redirect-limit error when more than L 3xx responses arrive; and
\* send, once called, terminates.
C1_RedirectBound == []C1Bound /\ ((pc = "format") ~> (pc = "done"))

\* a dispatch with the default limit of 4 has read five 3xx responses and
\* ended with the redirect-limit error
C1_Witness ==
    /\ pc = "done"
    /\ limit = DefaultRedirects
    /\ hops = limit + 1
    /\ result = RedirectLimitError

\* C2: on a 3xx response with a Location and redirects left, the next hop's
\* request is the current one with the URL replaced by the Location value, one
\* redirect less, the same headers and body, and the method kept for 303 and
\* set to GET for any other 3xx status.
C2_NextHopRequest ==
    [][(/\ pc = "status"
        /\ IsRedirect(response.status)
        /\ LocationName \in DOMAIN response.headers
        /\ req.redirects > 0)
       => /\ pc' = "format"
          /\ calls' = calls + 1
          /\ req'.url = response.headers[LocationName]
          /\ req'.redirects = req.redirects - 1
          /\ req'.headers = req.headers
          /\ req'.body = req.body
          /\ req'.method = IF response.status = 303 THEN req.method ELSE "GET"]_vars

\* a POST with a body and a header has been redirected once and is still a POST
C2_Witness ==
    /\ pc = "format"
    /\ calls = 2
    /\ req.method = "POST"
    /\ req.body = SendBody
    /\ DOMAIN req.headers # {}
    /\ req.redirects = limit - 1

\* send has ended on a parsed 3xx response that has no Location header
C3Case ==
    /\ Returned
    /\ result.stage = "status"
    /\ response.kind = "ok"
    /\ IsRedirect(response.status)
    /\ LocationName \notin DOMAIN response.headers

\* C3 as stated: whatever the redirects counter, 0 included, a 3xx response
\* without Location fails with the missing-redirect-target error and no further
\* hop is dispatched.
C3_NoLocationAlways ==
    C3Case => result = NoLocationError /\ calls = hops

\* C3 as amended: with a redirects counter above 0 a 3xx response without
\* Location fails with the missing-redirect-target error; with the counter at 0
\* it fails with the redirect-limit error; no further hop is dispatched.
C3_NoLocationIfRedirectsLeft ==
    C3Case =>
        /\ result = IF req.redirects > 0 THEN NoLocationError ELSE RedirectLimitError
        /\ calls = hops

\* a request with redirects left has failed on a 3xx response without Location
C3_Witness ==
    /\ C3Case
    /\ req.redirects > 0
    /\ result = NoLocationError

\* C9: send on a request whose URL has no host returns the error InvalidInput
\* "url host part is invalid"; the caller gets an error value, not an abort.
C9_NoHostIsError ==
    (Returned /\ ~UriHost(req.url).some) =>
        result = Err("host", "uri::host", ErrInvalidHost)

\* resolve has ended on a socket error or on reading the address from a reply
C10Case ==
    /\ Returned
    /\ result.stage = "resolve"
    /\ result.at # "DNS_SERVERS"

\* C10: a short reply and every socket bind, connect, send or receive error make
\* resolve return an I/O error value, and no second query is sent.
C10_ResolveFailureIsError ==
    C10Case => result.kind = "err" /\ dns.sent <= 1

-----------------------------------------------------------------------------
(* Properties of dns::resolve (DnsSpec).                                   *)

\* resolve is between its socket calls
InDnsStage ==
    pc \in {"dns_bind", "dns_connect", "dns_send", "dns_peek", "dns_recv",
            "dns_extract"}

\* the name handed to resolve begins with the nine letters of localhost
NameBeginsWithLocalhost ==
    /\ Len(name) >= 9
    /\ SubSeq(name, 1, 9) = <<"l", "o", "c", "a", "l", "h", "o", "s", "t">>

\* resolve returns at once with the loopback address, having made no socket,
\* read no nameserver list and sent no query
LocalhostStep ==
    (pc = "resolve" /\ NameBeginsWithLocalhost) =>
        /\ pc' = "connect"
        /\ peer'.host = <<127, 0, 0, 1>>
        /\ ~dns'.socket /\ ~dns'.servers /\ dns'.sent = 0
        /\ result' = NoResult

\* C11: for every hostname that begins with localhost, resolve returns
\* 127.0.0.1 and performs no network I/O: no UDP socket is created, the
\* nameserver list is not consulted and no query is sent.
C11_LocalhostNoNetwork ==
    /\ [](NameBeginsWithLocalhost =>
            ~InDnsStage /\ ~dns.socket /\ ~dns.servers /\ dns.sent = 0)
    /\ [][LocalhostStep]_vars

\* resolve has returned the loopback address for a name that is longer than
\* localhost
C11_Witness ==
    /\ pc = "connect"
    /\ NameBeginsWithLocalhost
    /\ Len(name) > 9
    /\ peer.host = Loopback
    /\ dns = NoDns

\* the number of dots of n before position i
DotsBefore(n, i) == Cardinality({j \in 1..(i - 1) : n[j] = "."})

\* the positions of the ASCII characters of the k-th dot-separated label of n
LabelPositions(n, k) ==
    {i \in 1..Len(n) : n[i] # "." /\ n[i] \in AsciiChars /\ DotsBefore(n, i) = k - 1}

\* the j-th least of the positions ps
NthOf(ps, j) == CHOOSE q \in ps : Cardinality({x \in ps : x < q}) = j - 1

\* the bytes of the first 63 ASCII characters of the k-th label of n
LabelBytes(n, k) ==
    The({[j \in 1..(IF Cardinality(ps) < 63 THEN Cardinality(ps) ELSE 63) |->
            Ord(n[NthOf(ps, j)])] : ps \in {LabelPositions(n, k)}})

\* what the encoded name of n has to hold: the bytes of each label, in order,
\* and the empty label that ends the name
ExpectedChunks(n) ==
    [k \in 1..(DotsBefore(n, Len(n) + 1) + 1) |-> LabelBytes(n, k)] \o <<<<>>>>

\* the encoded name read back from position i of bytes: the chunk after each
\* length byte, or <<-1>> in place of a chunk that is cut short
RECURSIVE ChunksFrom(_, _)
ChunksFrom(bytes, i) ==
    IF i > Len(bytes) THEN <<>>
    ELSE IF i + bytes[i] > Len(bytes) THEN <<<<-1>>>>
    ELSE <<SubSeq(bytes, i + 1, i + bytes[i])>> \o ChunksFrom(bytes, i + bytes[i] + 1)

\* resolve has built its query message
C13Case == InDnsStage

\* C13: the query message is the 12 header bytes AB CD 01 00 00 01 00 00 00 00
\* 00 00, then the encoded name, then 00 01 00 01; the encoded name holds, for
\* each dot-separated label of the hostname without its non-ASCII characters,
\* a length byte min(length, 63) and that many of the label's first bytes, and
\* ends with one zero byte; so Q = 12 + len(name) + 4.
C13_QueryMessage ==
    C13Case =>
        \E q \in {Len(dns.msg)} :
            /\ q >= 17
            /\ SubSeq(dns.msg, 1, 12) = <<171, 205, 1, 0, 0, 1, 0, 0, 0, 0, 0, 0>>
            /\ SubSeq(dns.msg, q - 3, q) = <<0, 1, 0, 1>>
            /\ \A i \in 13..(q - 4) : dns.msg[i] \in 0..127
            /\ ChunksFrom(SubSeq(dns.msg, 13, q - 4), 1) = ExpectedChunks(name)

\* the message of a name with a label of 64 characters and a non-ASCII-free
\* second label has been built: 12 + (1 + 63) + (1 + 3) + 1 + 4 bytes
C13_Witness ==
    /\ pc = "dns_bind"
    /\ Len(name) = 68
    /\ Len(dns.msg) = 85
    /\ dns.msg[13] = 63

\* resolve has ended after a reply datagram of at least Q + 16 bytes
C14Case ==
    /\ ~InDnsStage
    /\ dns.sent = 1
    /\ Len(dns.datagram) >= Len(dns.msg) + 16

\* C14: for every hostname not beginning with localhost and every reply
\* datagram of at least Q + 16 bytes, resolve returns the address whose octets
\* are the reply bytes at offsets Q + 12 .. Q + 15, whatever else the reply holds.
C14_AddressFromReply ==
    C14Case =>
        /\ pc = "connect"
        /\ result = NoResult
        /\ peer.host = [k \in 1..4 |-> dns.datagram[Len(dns.msg) + 12 + k]]

-----------------------------------------------------------------------------
(* Properties of the stages of Request::send (Spec).                       *)

\* the stage of the hop a position of send belongs to; the request is
\* formatted and its host read before the first stage
StageOf ==
    [p \in {"format", "host", "resolve", "dns_bind", "dns_connect", "dns_send",
            "dns_peek", "dns_recv", "dns_extract", "connect", "write", "read",
            "decode", "parse", "status"} |->
        CASE p \in {"format", "host"} -> 0
          [] p \in {"resolve", "dns_bind", "dns_connect", "dns_send", "dns_peek",
                    "dns_recv", "dns_extract"} -> 1
          [] p = "connect" -> 2
          [] p = "write" -> 3
          [] p \in {"read", "decode"} -> 4
          [] p = "parse" -> 5
          [] p = "status" -> 6]

\* the stage a failure reported by send is attributed to
FailedStage ==
    [st \in {"format", "host", "resolve", "connect", "write", "read", "decode",
             "parse", "status"} |->
        CASE st \in {"format", "host"} -> 0
          [] st = "resolve" -> 1 [] st = "connect" -> 2 [] st = "write" -> 3
          [] st \in {"read", "decode"} -> 4 [] st = "parse" -> 5
          [] st = "status" -> 6]

\* one step of a dispatch keeps the order resolve, connect, send, receive,
\* parse, status: a stage is followed by itself or the next one, a hop is begun
\* only from the status of a parsed 3xx response, and a failure, of one of the
\* kinds given, is the failure of the stage it happened in and ends the dispatch
StagesStep(kinds) ==
    /\ (pc \in DOMAIN StageOf /\ pc' \in DOMAIN StageOf) =>
          \/ StageOf[pc'] \in {StageOf[pc], StageOf[pc] + 1}
          \/ /\ pc = "status" /\ pc' = "format"
             /\ response.kind = "ok" /\ IsRedirect(response.status)
             /\ calls' = calls + 1
    /\ pc \in DOMAIN StageOf => pc' \in DOMAIN StageOf \cup {"return"}
    /\ (pc \in DOMAIN StageOf /\ pc' = "return") =>
          \/ result'.kind = "ok" /\ pc = "status"
          \/ /\ result'.kind \in (IF StageOf[pc] = 0 THEN {"err", "panic"} ELSE kinds)
             /\ FailedStage[result'.stage] = StageOf[pc]
    /\ (pc = "parse" /\ ResponseParse(received.text).kind # "ok") =>
          pc' = "return" /\ result'.kind \in kinds
    /\ pc \in {"return", "done"} =>
          /\ pc' \in {"return", "done"}
          /\ calls' = calls /\ hops' = hops /\ result' = result

\* C12: in each hop the stages run in the order resolve, connect, send,
\* receive, parse, and then the status is inspected; a stage that fails ends the
\* dispatch with that stage's error value, no later stage runs, none is
\* repeated, no further hop is started, and a response that fails to parse is
\* never followed as a redirect.
C12_StagesInOrder == [][StagesStep({"err"})]_vars

\* the same with a failure being an error value or a panic
C12_StagesInOrderOrPanic == [][StagesStep({"err", "panic"})]_vars

-----------------------------------------------------------------------------
(* Properties of the sockets of a dispatch (Spec).                         *)

\* C15: every socket a dispatch opens is released when the hop that opened it
\* completes or fails: at most one TCP connection of the dispatch is open at any
\* time (that of hop k is released before hop k + 1 connects), and when send
\* has returned no connection and no UDP socket remains open.
C15_SocketsScopedToHop ==
    /\ streams <= 1
    /\ pc = "connect" => streams = 0
    /\ ~InDnsStage => ~dns.socket
    /\ pc = "done" => streams = 0

====
